---------------------------- MODULE Spec2Model ----------------------------
(***************************************************************************)
(* Model of the notification and broadcast core of digitalmemotag:        *)
(*   - Database.add_message of backend/api/index.py (recipients from the  *)
(*     item's contact field or from ADMIN_EMAILS) and of backend/main.py   *)
(*     (recipients from the item's subscriptions), with the per-recipient *)
(*     calls of send_email_notification;                                   *)
(*   - ConnectionManager of backend/websocket_manager.py, its coroutines  *)
(*     cut at their await points.                                          *)
(* Python strings are sequences of one-character strings, so that split,  *)
(* strip and the alias comparison are computed as the code computes them. *)
(* TLA+ strings are ASCII: "kan","ri","sha" stand for the three           *)
(* characters of the Japanese admin alias and "toku","mei" for the two     *)
(* characters of the anonymous sentinel.                                   *)
(***************************************************************************)
EXTENDS Integers, Sequences, FiniteSets, TLC

VARIABLES
    \* ---- process configuration (module level of index.py / main.py)
    RESEND_API_KEY,      \* TRUE iff the environment sets a Resend API key
    ADMIN_EMAIL_STRING,  \* the raw ADMIN_EMAIL environment string
    ADMIN_PASSWORD,      \* the ADMIN_PASSWORD environment string
    variant,             \* which deployment runs: "index" or "main"
    \* ---- the remote store (Appwrite collections)
    items,               \* the stored item documents, oldest first
    messages,            \* the stored message documents, oldest first
    subscriptions,       \* the stored subscription documents (main.py)
    \* ---- one add_message call
    req,                 \* its arguments
    pc,                  \* its position
    item,                \* its local `item` (a sequence of 0 or 1 documents)
    recipients,          \* the list its send loop iterates
    idx,                 \* how many entries of that list the loop has taken
    success_count,       \* its local success_count
    result,              \* its return value (a sequence of 0 or 1 results)
    calls,               \* to_email of every send_email_notification call
    gateway,             \* every resend.Emails.send call: <<to, outcome>>
    \* ---- ConnectionManager
    active_connections,  \* item_id -> list of connections, for the keys present
    admin_connections,   \* list of connections
    accepted,            \* the connections whose accept() has returned
    closed,              \* the connections whose channel is gone
    bc,                  \* the broadcast coroutines, by call order
    received,            \* connection -> the envelopes written to it, in order
    broadcastCalls,      \* the broadcast_* calls made so far, in call order
    lastCall,            \* the last disconnect_* call and whether it found
                         \* the connection (kept where the registry is
                         \* exercised on its own)
    unregistered,        \* connections a disconnect_* call found in its list
    \* ---- the HTTP routes
    response,            \* the request the last step served and its answer
                         \* (status 0 while the route has not returned)
    pending              \* the progress requests, by worker thread

cfgVars   == <<RESEND_API_KEY, ADMIN_EMAIL_STRING, ADMIN_PASSWORD, variant>>
storeVars == <<items, messages, subscriptions>>
callVars  == <<req, pc, item, recipients, idx, success_count, result, calls, gateway>>
wsVars    == <<active_connections, admin_connections, accepted, closed, bc, received,
              broadcastCalls, lastCall, unregistered>>
apiVars   == <<response, pending>>
vars      == <<cfgVars, storeVars, callVars, wsVars, apiVars>>

-----------------------------------------------------------------------------
(* Bounds of the model *)

MaxContactLen == 3      \* longest contact string of an item, in characters
MaxSubs == 2            \* most subscriptions stored (main.py)

ContactChars == {"a", "b", ",", " "}
ItemIds == {"i1", "i2"}

-----------------------------------------------------------------------------
(* Python string operations *)

Whitespace == {" "}

RECURSIVE LStrip(_)
LStrip(s) ==
    IF s = <<>> THEN <<>>
    ELSE IF Head(s) \in Whitespace THEN LStrip(Tail(s)) ELSE s

RECURSIVE RStrip(_)
RStrip(s) ==
    IF s = <<>> THEN <<>>
    ELSE IF s[Len(s)] \in Whitespace THEN RStrip(SubSeq(s, 1, Len(s) - 1)) ELSE s

\* str.strip()
Strip(s) == RStrip(LStrip(s))

\* str.split(','): the pieces between the commas, empty pieces included;
\* ''.split(',') is [''].
RECURSIVE SplitFrom(_, _)
SplitFrom(s, cur) ==
    IF s = <<>> THEN <<cur>>
    ELSE IF Head(s) = "," THEN <<cur>> \o SplitFrom(Tail(s), <<>>)
    ELSE SplitFrom(Tail(s), Append(cur, Head(s)))

Split(s) == SplitFrom(s, <<>>)

RECURSIVE MapStrip(_)
MapStrip(ps) == IF ps = <<>> THEN <<>> ELSE <<Strip(Head(ps))>> \o MapStrip(Tail(ps))

NonEmpty(e) == e # <<>>

\* a parse that forgets the `if email.strip()` filter
ParseEmails_KeepEmpty(s) == MapStrip(Split(s))

\* [email.strip() for email in s.split(',') if email.strip()]
ParseEmails(s) == SelectSeq(MapStrip(Split(s)), NonEmpty)

\* All strings over chars of length at most n
RECURSIVE StringsUpTo(_, _)
StringsUpTo(chars, n) ==
    IF n = 0 THEN {<<>>}
    ELSE LET shorter == StringsUpTo(chars, n - 1)
         IN  shorter \cup {Append(s, c) : s \in shorter, c \in chars}


-----------------------------------------------------------------------------
(* Values *)

None == <<>>            \* Python's None, for an optional value
Some(x) == <<x>>

\* the passwords a request may carry; "1234" is the default of ADMIN_PASSWORD
Passwords == {"1234", "abcd"}

\* no route has answered yet
\* the threads of the pool that serve the progress routes (plain `def` routes)
Workers == {1, 2}

\* a worker that has served no progress request yet
IdleRequest ==
    [st |-> "idle", op |-> "none", item_id |-> "", progress |-> 0,
     status |-> 0, wrote |-> FALSE]

NoResponse ==
    [op |-> "none", status |-> 0, token |-> None, presented |-> None,
     issued |-> None]

S_kanrisha == <<"kan", "ri", "sha">>
S_admin == <<"a", "d", "m", "i", "n">>
S_Admin == <<"A", "d", "m", "i", "n">>
S_Administrator == <<"A", "d", "m", "i", "n", "i", "s", "t", "r", "a", "t", "o", "r">>
S_administrator == <<"a", "d", "m", "i", "n", "i", "s", "t", "r", "a", "t", "o", "r">>
S_Yuki == <<"Y", "u", "k", "i">>

\* the author strings a request may carry
UserNames ==
    { S_kanrisha, S_admin, S_Admin, S_Administrator, S_administrator, S_Yuki,
      <<>>, <<" ">>, <<" ">> \o S_admin \o <<" ">> }

\* the message bodies a request may carry
Bodies == { <<>>, <<" ">>, <<"h", "i">>, <<" ", "h", "i">> }

\* the values of the ADMIN_EMAIL environment variable
AdminEmailStrings ==
    { <<>>, <<"o">>, <<"o", ",", "p", ",", "q">>, <<" ", "o", ",", ",">> }

Addresses == { <<"a">>, <<"b">> }

\* index.py line 487: the literal alias list
ADMIN_ALIASES == { S_kanrisha, S_admin, S_Admin, S_Administrator }

\* the default of MessageCreate.user_name, substituted for a blank author
ANONYMOUS == <<"toku", "mei">>

\* user_name in ['...', 'admin', 'Admin', 'Administrator'], after ASCII
\* lower-casing of both sides (a classification that ignores case)
Lower(c) == IF c = "A" THEN "a" ELSE IF c = "Y" THEN "y" ELSE c
LowerStr(s) == [i \in 1..Len(s) |-> Lower(s[i])]
IsAdminAuthor_IgnoreCase(user_name) ==
    LowerStr(user_name) \in {LowerStr(a) : a \in ADMIN_ALIASES}

\* user_name in ['...', 'admin', 'Admin', 'Administrator']
IsAdminAuthor(user_name) == user_name \in ADMIN_ALIASES

\* user_name.strip() if user_name and user_name.strip() else <anonymous>
\* an author that is only stripped
NormaliseUserName_StripOnly(user_name) == Strip(user_name)

\* user_name.strip() if user_name and user_name.strip() else the sentinel
NormaliseUserName(user_name) ==
    IF user_name # <<>> /\ Strip(user_name) # <<>> THEN Strip(user_name) ELSE ANONYMOUS

\* message.strip() if message else ""
NormaliseMessage(message) == IF message # <<>> THEN Strip(message) ELSE <<>>

\* ADMIN_EMAILS = [email.strip() for email in ADMIN_EMAIL_STRING.split(',') if email.strip()]
ADMIN_EMAILS == ParseEmails(ADMIN_EMAIL_STRING)

\* user_emails = [...] if user_email_string else []
\* (item.get('user_email', '') is None when the document has no such field)
UserEmails(it) ==
    IF it.user_email # None /\ it.user_email[1] # <<>>
    THEN ParseEmails(it.user_email[1])
    ELSE <<>>

\* index.py 487-520: the list the send loop iterates
ResolveRecipients(user_name, it) ==
    IF IsAdminAuthor(user_name) THEN UserEmails(it) ELSE ADMIN_EMAILS

\* get_subscriptions(item_id), then the email of each (main.py 434, 444)
RECURSIVE SubscriberEmails(_, _)
SubscriberEmails(subs, item_id) ==
    IF subs = <<>> THEN <<>>
    ELSE (IF Head(subs).item_id = item_id THEN <<Head(subs).email>> ELSE <<>>)
         \o SubscriberEmails(Tail(subs), item_id)

\* a notification that is sent whatever the flag
NotifyRequested_Always(r) == TRUE

\* if send_notification:
NotifyRequested(r) == r.send_notification

\* a loop that takes the list from its end
NextRecipient_Reversed(rs, i) == rs[Len(rs) - i]

\* for user_email in user_emails: the entry taken after i entries
NextRecipient(rs, i) == rs[i + 1]

\* a loop that stops at the first failed send
LoopDone_AbortOnFailure(rs, i, sent) == i = Len(rs) \/ ~sent

\* the for loop ends when the list is exhausted, whatever the sends returned
LoopDone(rs, i, sent) == i = Len(rs)

\* a loop that takes a recipient again when its send failed
Advance_RetryFailed(i, sent) == IF sent THEN i + 1 ELSE i

\* the for loop moves to the next entry whatever the send returned
Advance(i, sent) == i + 1

\* if user_emails: / if ADMIN_EMAILS: / if not subscribers: return
HasRecipients(rs) == rs # <<>>

Ok(text) == Some([ok |-> TRUE, msg |-> text])
Err(text) == Some([ok |-> FALSE, msg |-> text])

\* a post that reports a failure when no notification got through
PostResult_NeedsASend(succeeded, attempted) ==
    IF succeeded = 0 THEN Err("Notification failed")
    ELSE Ok("Message posted successfully")

\* return True, "Message posted successfully" after the notification flow
\* (index.py 524, main.py 416), whatever was attempted and whatever succeeded
PostResult(succeeded, attempted) == Ok("Message posted successfully")

\* create_message (index.py 800-808): 200 on success, else HTTPException 400
CreateMessageStatus(r) == IF r.ok THEN 200 ELSE 400

-----------------------------------------------------------------------------
(* Database.add_message and the notification dispatch *)

\* the documents of item i1 as add_item creates them (status "Working" and
\* progress 0 are the defaults of ItemCreate)
ItemDocs ==
    [item_id : {"i1"}, name : {<<"d">>},
     user_email : {None} \cup {Some(c) : c \in StringsUpTo(ContactChars, MaxContactLen)},
     status : {"Working"}, progress : {0}]

\* main.py's item documents carry no user_email field
PlainItemDocs ==
    [item_id : {"i1"}, name : {<<"d">>}, user_email : {None},
     status : {"Working"}, progress : {0}]

RECURSIVE SeqsUpTo(_, _)
SeqsUpTo(S, n) ==
    IF n = 0 THEN {<<>>}
    ELSE LET shorter == SeqsUpTo(S, n - 1)
         IN  shorter \cup {Append(q, x) : q \in shorter, x \in S}

Requests ==
    [item_id : {"i1"}, message : Bodies, user_name : UserNames,
     msg_type : {"general"}, send_notification : BOOLEAN]

InitCall ==
    /\ req \in Requests
    /\ pc = "start"
    /\ item = None
    /\ recipients = <<>>
    /\ idx = 0
    /\ success_count = 0
    /\ result = None
    /\ calls = <<>>
    /\ gateway = <<>>

InitStore ==
    /\ RESEND_API_KEY \in BOOLEAN
    /\ ADMIN_PASSWORD = "1234"
    /\ response = NoResponse
    /\ pending = [w \in Workers |-> IdleRequest]
    /\ variant \in {"index", "main"}
    /\ messages = <<>>
    /\ IF variant = "index"
       THEN /\ ADMIN_EMAIL_STRING \in AdminEmailStrings
            /\ subscriptions = <<>>
            /\ items \in {<<>>} \cup {<<d>> : d \in ItemDocs}
       ELSE /\ ADMIN_EMAIL_STRING = <<>>
            /\ subscriptions \in SeqsUpTo([item_id : ItemIds, email : Addresses], MaxSubs)
            /\ items \in {<<>>} \cup {<<d>> : d \in PlainItemDocs}

\* The positions of the documents of `docs` whose item_id is item_id
Matching(docs, item_id) == {i \in 1..Len(docs) : docs[i].item_id = item_id}

\* The least member of a non-empty set of positions
First(S) == CHOOSE i \in S : \A j \in S : i <= j

\* get_item_by_id: the first document with that item_id (equal, limit 1), or
\* None when there is none or the query raised
GetItemById(item_id, raised) ==
    IF ~raised /\ Matching(items, item_id) # {}
    THEN Some(items[First(Matching(items, item_id))])
    ELSE None

Return(r) ==
    /\ pc' = "done"
    /\ result' = r

\* index.py 440-449, main.py 392-396: normalise, reject an empty body, and (index.py)
\* look the item up
AddMessageBegin ==
    /\ pc = "start"
    /\ LET user_name == NormaliseUserName(req.user_name)
           message == NormaliseMessage(req.message)
       IN  /\ req' = [req EXCEPT !.user_name = user_name, !.message = message]
           /\ IF message = <<>>
              THEN /\ Return(Err("Message is empty"))
                   /\ item' = item
              ELSE IF variant = "index"
              THEN \E raised \in BOOLEAN :
                      /\ item' = GetItemById(req.item_id, raised)
                      /\ IF item' = None
                         THEN Return(Err("Item not found"))
                         ELSE pc' = "create" /\ result' = result
              ELSE /\ pc' = "create"
                   /\ UNCHANGED <<item, result>>
    /\ UNCHANGED <<recipients, idx, success_count, calls, gateway>>
    /\ UNCHANGED <<cfgVars, storeVars, wsVars, apiVars>>

\* a handler that goes on to the notification after a failed create
CreateRaised_NotifyAnyway == pc' = "lookup" /\ result' = result

\* except AppwriteException / except Exception around the whole body (index.py
\* 526-531, main.py 418-423): create_document raised, the call returns a failure
CreateRaised == Return(Err("Failed to post message"))

\* index.py 451-524, main.py 398-416: create the message document, then either
\* return or enter the notification flow
AddMessageCreate ==
    /\ pc = "create"
    /\ \E raised \in BOOLEAN :
          IF raised
          THEN /\ CreateRaised
               /\ UNCHANGED <<messages, recipients>>
          ELSE /\ messages' = Append(messages,
                     [item_id |-> req.item_id, message |-> req.message,
                      user_name |-> req.user_name, msg_type |-> req.msg_type])
               /\ IF ~NotifyRequested(req)
                  THEN /\ Return(Ok("Message posted successfully"))
                       /\ UNCHANGED recipients
                  ELSE IF variant = "index"
                  THEN /\ recipients' = ResolveRecipients(req.user_name, item[1])
                       /\ IF HasRecipients(recipients')
                          THEN pc' = "send" /\ result' = result
                          ELSE Return(PostResult(0, 0))
                  ELSE /\ pc' = "lookup"
                       /\ UNCHANGED <<recipients, result>>
    /\ UNCHANGED <<req, item, idx, success_count, calls, gateway>>
    /\ UNCHANGED <<cfgVars, items, subscriptions, wsVars, apiVars>>

\* main.py 425-438: send_notifications_for_item up to its loop
AddMessageLookup ==
    /\ pc = "lookup"
    /\ \E itemRaised \in BOOLEAN, subsRaised \in BOOLEAN :
          /\ item' = GetItemById(req.item_id, itemRaised)
          /\ IF item' = None
             THEN /\ Return(PostResult(0, 0))
                  /\ UNCHANGED recipients
             ELSE /\ recipients' =
                        IF subsRaised THEN <<>>
                        ELSE SubscriberEmails(subscriptions, req.item_id)
                  /\ IF HasRecipients(recipients')
                     THEN pc' = "send" /\ result' = result
                     ELSE Return(PostResult(0, 0))
    /\ UNCHANGED <<req, idx, success_count, calls, gateway>>
    /\ UNCHANGED <<cfgVars, storeVars, wsVars, apiVars>>

\* One iteration of the send loop (index.py 493-499, 510-516; main.py 443-447)
\* around send_email_notification (index.py 162-286): False without a gateway
\* call when no API key is set, else True iff resend.Emails.send did not raise.
AddMessageSend ==
    /\ pc = "send"
    /\ LET to == NextRecipient(recipients, idx)
       IN  \E outcome \in {"ok", "error"} :
              LET sent == RESEND_API_KEY /\ outcome = "ok"
              IN  /\ IF variant = "main" /\ to = <<>>
                     THEN UNCHANGED <<calls, gateway, success_count>>
                     ELSE /\ calls' = Append(calls, to)
                          /\ gateway' = IF RESEND_API_KEY
                                        THEN Append(gateway, <<to, outcome>>)
                                        ELSE gateway
                          /\ success_count' = IF sent THEN success_count + 1
                                              ELSE success_count
                  /\ idx' = Advance(idx, sent)
                  /\ IF LoopDone(recipients, idx', sent)
                     THEN Return(PostResult(success_count', Len(calls')))
                     ELSE pc' = "send" /\ result' = result
    /\ UNCHANGED <<req, item, recipients>>
    /\ UNCHANGED <<cfgVars, storeVars, wsVars, apiVars>>

NextNotify ==
    \/ AddMessageBegin
    \/ AddMessageCreate
    \/ AddMessageLookup
    \/ AddMessageSend

-----------------------------------------------------------------------------
(* ConnectionManager (websocket_manager.py) *)

MaxCloses == 2          \* channels that are gone in one behaviour

Conns == {"c1", "c2", "c3"}
Calls == {1, 2}         \* the broadcast_* calls of a behaviour, in call order
Kinds == {"new_message", "status_update"}
NoItem == ""            \* a message_data without item_id (falsy in Python)
Targets == {<<"new_message", NoItem>>} \cup (Kinds \X ItemIds)

Range(q) == {q[i] : i \in 1..Len(q)}

\* list.remove(x): the list without its first x
RECURSIVE RemoveFirst(_, _)
RemoveFirst(q, x) ==
    IF q = <<>> THEN <<>>
    ELSE IF Head(q) = x THEN Tail(q) ELSE <<Head(q)>> \o RemoveFirst(Tail(q), x)

\* del d[k]
DelKey(f, k) == [x \in (DOMAIN f) \ {k} |-> f[x]]

\* d[k] = v for a key that may be new
SetKey(f, k, v) == [x \in (DOMAIN f) \cup {k} |-> IF x = k THEN v ELSE f[x]]

\* A broadcast coroutine.  st is its position: "idle" (not called), "item"
\* (suspended in a push of send_to_item's loop), "admin" (suspended in a push of
\* send_to_admins' loop), "done" (returned), "raised" (left by an exception).
\* idx counts the entries its list iterator has taken; disconnected is the
\* loop's local list; detached says that the list it iterates was deleted from
\* active_connections (that list is empty and no longer the one under the key).
\* Three fields record what happened: disturbed, that another task removed a
\* connection from the list while its loop ran; joined, the connections appended
\* to the list while its loop ran; failed, the connections whose push raised.
\* no disconnect_* call has been made (or none is recorded)
NoCall == [op |-> "none", websocket |-> "", item_id |-> "", member |-> FALSE]

IdleBroadcast ==
    [st |-> "idle", kind |-> "new_message", item_id |-> NoItem, idx |-> 0,
     disconnected |-> <<>>, detached |-> FALSE,
     disturbed |-> FALSE, joined |-> {}, failed |-> {}]

\* A manager as constructed (8-12), with no broadcast called yet
InitWS ==
    /\ active_connections = [k \in {} |-> <<>>]
    /\ admin_connections = <<>>
    /\ accepted = {}
    /\ closed = {}
    /\ bc = [b \in Calls |-> IdleBroadcast]
    /\ received = [c \in Conns |-> <<>>]
    /\ broadcastCalls = <<>>
    /\ lastCall = NoCall
    /\ unregistered = {}

\* The manager as constructed, in one of two settings: one broadcast call among
\* three connections, or two broadcast calls among two connections (the
\* channel of the third is gone before its handshake)
InitManagerWS ==
    /\ active_connections = [k \in {} |-> <<>>]
    /\ admin_connections = <<>>
    /\ accepted = {}
    /\ received = [c \in Conns |-> <<>>]
    /\ broadcastCalls = <<>>
    /\ lastCall = NoCall
    /\ unregistered = {}
    /\ \/ closed = {} /\ bc = [b \in {1} |-> IdleBroadcast]
       \/ closed = {"c3"} /\ bc = [b \in Calls |-> IdleBroadcast]

\* The manager state the operators below transform
Manager == [ac |-> active_connections, adm |-> admin_connections,
            rcv |-> received, bc |-> bc]

\* The loops of the other coroutines that iterate item_id's list
IteratingItem(m, item_id, self) ==
    {b \in DOMAIN m.bc : b # self /\ m.bc[b].st = "item"
                         /\ m.bc[b].item_id = item_id /\ ~m.bc[b].detached}

IteratingAdmin(m, self) ==
    {b \in DOMAIN m.bc : b # self /\ m.bc[b].st = "admin"}

\* an unregister that leaves the emptied list under its key
DisconnectFromItem_KeepEmpty(m, websocket, item_id, self) ==
    IF item_id \in DOMAIN m.ac /\ websocket \in Range(m.ac[item_id])
    THEN [m EXCEPT !.ac[item_id] = RemoveFirst(@, websocket)]
    ELSE m

\* an unregister that drops the item's entry whoever is left in it
DisconnectFromItem_DropsScope(m, websocket, item_id, self) ==
    IF item_id \in DOMAIN m.ac
    THEN [m EXCEPT !.ac = DelKey(@, item_id)]
    ELSE m

\* an unregister whose membership guard is inverted: a member stays
DisconnectFromItem_GuardInverted(m, websocket, item_id, self) == m

\* disconnect_from_item (26-32), called by coroutine self (0: by a connection's
\* own handler)
DisconnectFromItem(m, websocket, item_id, self) ==
    IF item_id \in DOMAIN m.ac /\ websocket \in Range(m.ac[item_id])
    THEN LET rest == RemoveFirst(m.ac[item_id], websocket)
             its == IteratingItem(m, item_id, self)
         IN  [m EXCEPT
                !.ac = IF rest = <<>> THEN DelKey(@, item_id)
                       ELSE [@ EXCEPT ![item_id] = rest],
                !.bc = [b \in DOMAIN @ |->
                          IF b \in its
                          THEN [@[b] EXCEPT !.disturbed = TRUE,
                                            !.detached = (rest = <<>>)]
                          ELSE @[b]]]
    ELSE m

\* disconnect_admin (34-37)
DisconnectAdmin(m, websocket, self) ==
    IF websocket \in Range(m.adm)
    THEN [m EXCEPT
            !.adm = RemoveFirst(@, websocket),
            !.bc = [b \in DOMAIN @ |->
                      IF b \in IteratingAdmin(m, self)
                      THEN [@[b] EXCEPT !.disturbed = TRUE]
                      ELSE @[b]]]
    ELSE m

\* a cleanup that unregisters only the first failed connection
CleanupItem_FirstOnly(m, disconnected, item_id, self) ==
    IF disconnected = <<>> THEN m
    ELSE DisconnectFromItem(m, Head(disconnected), item_id, self)

\* for connection in disconnected: self.disconnect_from_item(connection, item_id)
RECURSIVE CleanupItem(_, _, _, _)
CleanupItem(m, disconnected, item_id, self) ==
    IF disconnected = <<>> THEN m
    ELSE CleanupItem(DisconnectFromItem(m, Head(disconnected), item_id, self),
                     Tail(disconnected), item_id, self)

\* a cleanup that empties the admin list once a push has failed
CleanupAdmin_ClearsList(m, disconnected, self) ==
    IF disconnected = <<>> THEN m ELSE [m EXCEPT !.adm = <<>>]

\* for connection in disconnected: self.disconnect_admin(connection)
RECURSIVE CleanupAdmin(_, _, _)
CleanupAdmin(m, disconnected, self) ==
    IF disconnected = <<>> THEN m
    ELSE CleanupAdmin(DisconnectAdmin(m, Head(disconnected), self),
                      Tail(disconnected), self)

\* {"type": ..., "data": ...}: the envelope of call b
Envelope(m, b) ==
    [type |-> m.bc[b].kind, item_id |-> m.bc[b].item_id, id |-> b]

\* a push whose failure is not caught
PushOutcome_Uncaught(websocket) == IF websocket \in closed THEN "raised" ELSE "ok"

\* try: await connection.send_text(...) / except: (43-46, 55-58)
PushOutcome(websocket) == IF websocket \in closed THEN "caught" ELSE "ok"

\* The list coroutine b iterates
ListOf(m, b) ==
    IF m.bc[b].st = "admin" THEN m.adm
    ELSE IF m.bc[b].detached \/ m.bc[b].item_id \notin DOMAIN m.ac THEN <<>>
    ELSE m.ac[m.bc[b].item_id]

\* One push: the loop body for the entry the iterator yields, after which the
\* coroutine is suspended in send_text (or has left by an exception)
Push(m, b) ==
    LET r == m.bc[b]
        c == ListOf(m, b)[r.idx + 1]
        outcome == PushOutcome(c)
    IN  IF outcome = "ok"
        THEN [m EXCEPT !.rcv[c] = Append(@, Envelope(m, b)),
                       !.bc[b].idx = r.idx + 1]
        ELSE IF outcome = "caught"
        THEN [m EXCEPT !.bc[b].idx = r.idx + 1,
                       !.bc[b].disconnected = Append(@, c),
                       !.bc[b].failed = @ \cup {c}]
        ELSE [m EXCEPT !.bc[b].st = "raised",
                       !.bc[b].failed = @ \cup {c}]

\* The coroutine's loop state when a loop starts or has ended
Fresh(r, st) ==
    [r EXCEPT !.st = st, !.idx = 0, !.disconnected = <<>>, !.detached = FALSE,
              !.disturbed = FALSE, !.joined = {}]

\* send_to_admins from its loop head on, up to the next suspension (52-62)
AdminLoop(m, b) ==
    IF m.bc[b].idx < Len(m.adm)
    THEN Push(m, b)
    ELSE LET m1 == CleanupAdmin(m, m.bc[b].disconnected, b)
         IN  [m1 EXCEPT !.bc[b] = Fresh(@, "done")]

\* Entering send_to_admins (52-53)
EnterAdmin(m, b) == AdminLoop([m EXCEPT !.bc[b] = Fresh(@, "admin")], b)

\* send_to_item from its loop head on, up to the next suspension (42-50), and
\* then the caller's send_to_admins
ItemLoop(m, b) ==
    IF m.bc[b].idx < Len(ListOf(m, b))
    THEN Push(m, b)
    ELSE EnterAdmin(CleanupItem(m, m.bc[b].disconnected, m.bc[b].item_id, b), b)

\* Entering send_to_item (39-41): without the key there is no loop
EnterItem(m, b) ==
    IF m.bc[b].item_id \in DOMAIN m.ac
    THEN ItemLoop([m EXCEPT !.bc[b] = Fresh(@, "item")], b)
    ELSE EnterAdmin(m, b)

\* broadcast_new_message (64-79): `if item_id:` guards send_to_item;
\* broadcast_status_update (81-96) calls it unguarded
EnterBroadcast(m, b) ==
    IF m.bc[b].kind = "new_message" /\ m.bc[b].item_id = NoItem
    THEN EnterAdmin(m, b)
    ELSE EnterItem(m, b)

\* The coroutine resumes from its push: back to the head of its loop
Resume(m, b) ==
    IF m.bc[b].st = "item" THEN ItemLoop(m, b) ELSE AdminLoop(m, b)

SetManager(m) ==
    /\ active_connections' = m.ac
    /\ admin_connections' = m.adm
    /\ received' = m.rcv
    /\ bc' = m.bc

\* Some broadcast has not returned yet: the model follows the manager up to the
\* return of the last broadcast call
Running == \E b \in DOMAIN bc : bc[b].st \notin {"done", "raised"}

\* `item_id in self.active_connections and websocket in
\* self.active_connections[item_id]` (27-28)
IsItemMember(websocket, item_id) ==
    IF item_id \in DOMAIN active_connections
    THEN websocket \in Range(active_connections[item_id])
    ELSE FALSE

\* connect_to_item (14-19): accept() returns, once per connection (the
\* handshake of an open channel), and the connection is appended
ConnectToItem(websocket, item_id) ==
    /\ Running
    /\ websocket \notin closed
    /\ websocket \notin accepted
    /\ accepted' = accepted \cup {websocket}
    /\ active_connections' =
          SetKey(active_connections, item_id,
                 IF item_id \in DOMAIN active_connections
                 THEN Append(active_connections[item_id], websocket)
                 ELSE <<websocket>>)
    /\ bc' = [b \in DOMAIN bc |->
                IF b \in IteratingItem(Manager, item_id, 0)
                THEN [bc[b] EXCEPT !.joined = @ \cup {websocket}]
                ELSE bc[b]]
    /\ UNCHANGED <<admin_connections, closed, received, broadcastCalls>>
    /\ UNCHANGED <<cfgVars, storeVars, callVars, lastCall, unregistered, apiVars>>

\* connect_admin (21-24): the same for the admin list
ConnectAdmin(websocket) ==
    /\ Running
    /\ websocket \notin closed
    /\ websocket \notin accepted
    /\ accepted' = accepted \cup {websocket}
    /\ admin_connections' = Append(admin_connections, websocket)
    /\ bc' = [b \in DOMAIN bc |->
                IF b \in IteratingAdmin(Manager, 0)
                THEN [bc[b] EXCEPT !.joined = @ \cup {websocket}]
                ELSE bc[b]]
    /\ UNCHANGED <<active_connections, closed, received, broadcastCalls>>
    /\ UNCHANGED <<cfgVars, storeVars, callVars, lastCall, unregistered, apiVars>>

\* disconnect_from_item called by a connection's handler; unregistered notes
\* the connections such a call found in the list it names
DisconnectFromItemCall(websocket, item_id) ==
    /\ Running
    /\ SetManager(DisconnectFromItem(Manager, websocket, item_id, 0))
    /\ unregistered' = IF IsItemMember(websocket, item_id)
                       THEN unregistered \cup {websocket} ELSE unregistered
    /\ UNCHANGED <<accepted, closed, broadcastCalls>>
    /\ UNCHANGED <<cfgVars, storeVars, callVars, lastCall, apiVars>>

\* disconnect_admin called by a connection's handler
DisconnectAdminCall(websocket) ==
    /\ Running
    /\ SetManager(DisconnectAdmin(Manager, websocket, 0))
    /\ unregistered' = IF websocket \in Range(admin_connections)
                       THEN unregistered \cup {websocket} ELSE unregistered
    /\ UNCHANGED <<accepted, closed, broadcastCalls>>
    /\ UNCHANGED <<cfgVars, storeVars, callVars, lastCall, apiVars>>

\* The channel of an accepted connection goes away (the peer left, the
\* transport failed)
Close(websocket) ==
    /\ Running
    /\ websocket \in accepted
    /\ websocket \notin closed
    /\ Cardinality(closed) < MaxCloses
    /\ closed' = closed \cup {websocket}
    /\ UNCHANGED <<active_connections, admin_connections, accepted, bc, received,
                   broadcastCalls>>
    /\ UNCHANGED <<cfgVars, storeVars, callVars, lastCall, unregistered, apiVars>>

\* broadcast_new_message / broadcast_status_update is called and runs up to its
\* first suspension; calls are numbered in call order
StartBroadcast(b, kind, item_id) ==
    /\ bc[b].st = "idle"
    /\ IF b = 1 THEN TRUE ELSE bc[b - 1].st # "idle"
    /\ broadcastCalls' = Append(broadcastCalls, [kind |-> kind, item_id |-> item_id])
    /\ SetManager(EnterBroadcast(
          [Manager EXCEPT !.bc[b].kind = kind, !.bc[b].item_id = item_id], b))
    /\ UNCHANGED <<accepted, closed>>
    /\ UNCHANGED <<cfgVars, storeVars, callVars, lastCall, unregistered, apiVars>>

\* A suspended broadcast resumes and runs up to its next suspension or its return
ResumeBroadcast(b) ==
    /\ bc[b].st \in {"item", "admin"}
    /\ SetManager(Resume(Manager, b))
    /\ UNCHANGED <<accepted, closed, broadcastCalls>>
    /\ UNCHANGED <<cfgVars, storeVars, callVars, lastCall, unregistered, apiVars>>

\* disconnect_from_item called on the registry, the call recorded
UnregisterFromItem(websocket, item_id) ==
    /\ lastCall' = [op |-> "disconnect_from_item", websocket |-> websocket,
                    item_id |-> item_id,
                    member |-> IsItemMember(websocket, item_id)]
    /\ SetManager(DisconnectFromItem(Manager, websocket, item_id, 0))
    /\ UNCHANGED <<accepted, closed, broadcastCalls, unregistered>>
    /\ UNCHANGED <<cfgVars, storeVars, callVars, apiVars>>

\* disconnect_admin called on the registry, the call recorded
UnregisterAdmin(websocket) ==
    /\ lastCall' = [op |-> "disconnect_admin", websocket |-> websocket,
                    item_id |-> NoItem,
                    member |-> websocket \in Range(admin_connections)]
    /\ SetManager(DisconnectAdmin(Manager, websocket, 0))
    /\ UNCHANGED <<accepted, closed, broadcastCalls, unregistered>>
    /\ UNCHANGED <<cfgVars, storeVars, callVars, apiVars>>

\* The registry on its own: connects and disconnects, no broadcast running
NextRegistry ==
    \/ \E c \in Conns, i \in ItemIds : ConnectToItem(c, i)
    \/ \E c \in Conns : ConnectAdmin(c)
    \/ \E c \in Conns, i \in ItemIds : UnregisterFromItem(c, i)
    \/ \E c \in Conns : UnregisterAdmin(c)

NextWS ==
    \/ \E c \in Conns, i \in ItemIds : ConnectToItem(c, i)
    \/ \E c \in Conns : ConnectAdmin(c)
    \/ \E c \in Conns, i \in ItemIds : DisconnectFromItemCall(c, i)
    \/ \E c \in Conns : DisconnectAdminCall(c)
    \/ \E c \in Conns : Close(c)
    \/ \E b \in DOMAIN bc, t \in Targets : StartBroadcast(b, t[1], t[2])
    \/ \E b \in DOMAIN bc : ResumeBroadcast(b)

-----------------------------------------------------------------------------
(* login and the admin-only routes *)

MaxItems == 2           \* most item documents stored
MaxMessages == 1        \* most message documents stored when the routes start
QueryLimit == 100       \* AppwriteQuery.limit(100) of get_messages / get_subscriptions

\* the Authorization header of a request: absent, or a bearer token
Credentials == {None} \cup {Some(p) : p \in Passwords}

Statuses == {"Working", "Completed"}
AdminOps == {"create_item", "update_item_status", "delete_item", "delete_message"}

\* the documents POST /items may ask for
NewItemDocs ==
    [item_id : ItemIds, name : {<<"d">>}, user_email : {None},
     status : {"Working"}, progress : {0}]

\* message documents as add_message stores them
StoredMessages ==
    [item_id : ItemIds, message : {<<"h", "i">>}, user_name : {S_Yuki},
     msg_type : {"general"}]

\* a check that only asks for some bearer token
VerifyAdminToken_AnyToken(credentials) == credentials # None

\* verify_admin_token (611-617) behind HTTPBearer: passes iff a bearer token is
\* presented and equals ADMIN_PASSWORD
VerifyAdminToken(credentials) ==
    IF credentials = None THEN FALSE ELSE credentials[1] = ADMIN_PASSWORD

\* The status of a rejection: HTTPBearer answers a request without a bearer
\* token itself (401 or 403, by the FastAPI release), verify_admin_token
\* raises 401
RejectStatuses(credentials) == IF credentials = None THEN {401, 403} ELSE {401}

Respond(op, credentials, status) ==
    response' = [op |-> op, status |-> status, token |-> None,
                 presented |-> credentials, issued |-> response.issued]

\* The dependency raised: the route body does not run
Reject(op, credentials) ==
    /\ \E st \in RejectStatuses(credentials) : Respond(op, credentials, st)
    /\ UNCHANGED storeVars

\* a login that hands out a fixed session token
LoginToken_Fixed(password) == "token"

\* return {"success": True, "token": ADMIN_PASSWORD}
LoginToken(password) == ADMIN_PASSWORD

\* POST /login (698-703); issued is the token the client holds from its last
\* successful login
Login(password) ==
    /\ response' =
          IF password = ADMIN_PASSWORD
          THEN [op |-> "login", status |-> 200,
                token |-> Some(LoginToken(password)), presented |-> Some(password),
                issued |-> Some(LoginToken(password))]
          ELSE [op |-> "login", status |-> 401, token |-> None,
                presented |-> Some(password), issued |-> response.issued]
    /\ UNCHANGED <<cfgVars, storeVars, callVars, wsVars, pending>>

\* The sequence q without the entries at the positions of S
RemoveAt(q, S) ==
    LET keep == {i \in 1..Len(q) : i \notin S}
        F[i \in 0..Len(q)] ==
            IF i = 0 THEN <<>>
            ELSE IF i \in keep THEN Append(F[i - 1], q[i]) ELSE F[i - 1]
    IN  F[Len(q)]

\* The positions of S from the newest document down (order_desc on
\* $createdAt), at most QueryLimit of them
RECURSIVE NewestFirst(_, _)
NewestFirst(S, n) ==
    IF S = {} \/ n = 0 THEN <<>>
    ELSE LET last == CHOOSE i \in S : \A j \in S : j <= i
         IN  <<last>> \o NewestFirst(S \ {last}, n - 1)

\* The positions of S from the oldest document up (no order given), at most
\* QueryLimit of them
RECURSIVE OldestFirst(_, _)
OldestFirst(S, n) ==
    IF S = {} \/ n = 0 THEN <<>>
    ELSE <<First(S)>> \o OldestFirst(S \ {First(S)}, n - 1)

\* The first n entries of a sequence of positions, as a set
Taken(q, n) == {q[i] : i \in 1..n}

\* POST /items (717-726) with Database.add_item (399-436)
CreateItem(credentials, doc) ==
    /\ Len(items) < MaxItems
    /\ IF ~VerifyAdminToken(credentials)
       THEN Reject("create_item", credentials)
       ELSE \E lookupRaised \in BOOLEAN, createRaised \in BOOLEAN :
               IF GetItemById(doc.item_id, lookupRaised) # None \/ createRaised
               THEN /\ Respond("create_item", credentials, 400)
                    /\ UNCHANGED storeVars
               ELSE /\ items' = Append(items, doc)
                    /\ Respond("create_item", credentials, 200)
                    /\ UNCHANGED <<messages, subscriptions>>
    /\ UNCHANGED <<cfgVars, callVars, wsVars, pending>>

\* PATCH /items/{item_id}/status (736-742) with Database.update_item_status
\* (533-552)
UpdateItemStatus(credentials, item_id, status) ==
    /\ IF ~VerifyAdminToken(credentials)
       THEN Reject("update_item_status", credentials)
       ELSE \E raised \in BOOLEAN :
               IF GetItemById(item_id, raised) = None \/ raised
               THEN /\ Respond("update_item_status", credentials, 400)
                    /\ UNCHANGED storeVars
               ELSE /\ items' = [items EXCEPT
                             ![First(Matching(items, item_id))].status = status]
                    /\ Respond("update_item_status", credentials, 200)
                    /\ UNCHANGED <<messages, subscriptions>>
    /\ UNCHANGED <<cfgVars, callVars, wsVars, pending>>

\* DELETE /items/{item_id} (728-734) with Database.delete_item (index.py
\* 579-605, main.py 558-593): the messages of the item one by one, (main.py)
\* its subscriptions one by one, then the item document; the first delete that
\* raises ends the call, what was deleted stays deleted
DeleteItem(credentials, item_id) ==
    /\ IF ~VerifyAdminToken(credentials)
       THEN Reject("delete_item", credentials)
       ELSE \E lookupRaised \in BOOLEAN, msgsRaised \in BOOLEAN,
               subsRaised \in BOOLEAN :
               IF GetItemById(item_id, lookupRaised) = None
               THEN /\ Respond("delete_item", credentials, 400)
                    /\ UNCHANGED storeVars
               ELSE LET mt == IF msgsRaised THEN <<>>
                              ELSE NewestFirst(Matching(messages, item_id), QueryLimit)
                        st == IF variant = "index" \/ subsRaised THEN <<>>
                              ELSE OldestFirst(Matching(subscriptions, item_id), QueryLimit)
                    IN  \E mdone \in 0..Len(mt), sdone \in 0..Len(st),
                           itemDeleted \in BOOLEAN :
                           /\ mdone < Len(mt) => (sdone = 0 /\ ~itemDeleted)
                           /\ sdone < Len(st) => ~itemDeleted
                           /\ messages' = RemoveAt(messages, Taken(mt, mdone))
                           /\ subscriptions' = RemoveAt(subscriptions, Taken(st, sdone))
                           /\ items' = IF itemDeleted
                                       THEN RemoveAt(items, {First(Matching(items, item_id))})
                                       ELSE items
                           /\ Respond("delete_item", credentials,
                                      IF itemDeleted THEN 200 ELSE 400)
    /\ UNCHANGED <<cfgVars, callVars, wsVars, pending>>

\* DELETE /messages/{message_id} (810-822): message_id names the document at
\* position k, or no stored document (k = 0)
DeleteMessage(credentials, k) ==
    /\ IF ~VerifyAdminToken(credentials)
       THEN Reject("delete_message", credentials)
       ELSE \E raised \in BOOLEAN :
               IF k = 0 \/ raised
               THEN /\ Respond("delete_message", credentials, 400)
                    /\ UNCHANGED storeVars
               ELSE /\ messages' = RemoveAt(messages, {k})
                    /\ Respond("delete_message", credentials, 200)
                    /\ UNCHANGED <<items, subscriptions>>
    /\ UNCHANGED <<cfgVars, callVars, wsVars, pending>>

NextApi ==
    \/ \E p \in Passwords : Login(p)
    \/ \E c \in Credentials, d \in NewItemDocs : CreateItem(c, d)
    \/ \E c \in Credentials, i \in ItemIds, st \in Statuses : UpdateItemStatus(c, i, st)
    \/ \E c \in Credentials, i \in ItemIds : DeleteItem(c, i)
    \/ \E c \in Credentials, k \in 0..Len(messages) : DeleteMessage(c, k)

-----------------------------------------------------------------------------
(* the progress routes of index.py *)

\* the progress values a request may carry (an int path or query parameter)
ProgressInputs == {-1, 10, 50, 80, 100, 101}

\* the progress values POST /items may carry (ItemCreate.progress is an
\* Optional[int] without bounds)
CreateProgressInputs == {0, 101}

ProgressRoutes == {"update_item_progress", "public_update_progress"}

\* the item documents POST /items may ask for in the progress model
ProgressItemDocs ==
    [item_id : {"i2"}, name : {<<"d">>}, user_email : {None},
     status : {"Working"}, progress : CreateProgressInputs]

\* "Auto update status" (748-754, 776-782): the status to write, or None for
\* a progress from 25 to 74
DerivedStatus(progress) ==
    IF progress = 100 THEN Some("Completed")
    ELSE IF progress >= 75 THEN Some("Working")
    ELSE IF progress < 25 THEN Some("Delayed")
    ELSE None

\* Query(..., ge=0, le=100) of the PATCH route; `if progress < 0 or progress >
\* 100` of the public route
ProgressAccepted(progress) == progress >= 0 /\ progress <= 100

\* the answer to a progress out of range: FastAPI's validation error for the
\* PATCH route, the JSONResponse of the public route
ProgressRejectStatus(op) == IF op = "update_item_progress" THEN 422 ELSE 400

\* The step serves a request of a progress route, which declares no
\* credentials (no Depends(verify_admin_token)) and is sent without any
Served(op, status) ==
    response' = [op |-> op, status |-> status, token |-> None,
                 presented |-> None, issued |-> response.issued]

\* The route has returned `status` for its request
Returned(w, item_id, progress, status, wrote) ==
    pending' = [pending EXCEPT ![w] =
                  [st |-> "done", op |-> "none", item_id |-> item_id,
                   progress |-> progress, status |-> status, wrote |-> wrote]]

\* PATCH /items/{item_id}/progress (744-760) and GET /public/progress/
\* {item_id}/{progress} (762-790) up to the return of db.update_item_progress
\* (554-577), and up to the route's return when no status is derived
ProgressBegin(w, op, item_id, progress) ==
    /\ pending[w].st = "idle"
    /\ IF ~ProgressAccepted(progress)
       THEN /\ Returned(w, item_id, progress, ProgressRejectStatus(op), FALSE)
            /\ Served(op, ProgressRejectStatus(op))
            /\ UNCHANGED storeVars
       ELSE \E raised \in BOOLEAN :
               IF GetItemById(item_id, raised) = None \/ raised
               THEN /\ Returned(w, item_id, progress, 404, FALSE)
                    /\ Served(op, 404)
                    /\ UNCHANGED storeVars
               ELSE /\ items' = [items EXCEPT
                             ![First(Matching(items, item_id))].progress = progress]
                    /\ UNCHANGED <<messages, subscriptions>>
                    /\ IF DerivedStatus(progress) = None
                       THEN /\ Returned(w, item_id, progress, 200, FALSE)
                            /\ Served(op, 200)
                       ELSE /\ pending' = [pending EXCEPT ![w] =
                                  [st |-> "status", op |-> op, item_id |-> item_id,
                                   progress |-> progress, status |-> 0,
                                   wrote |-> FALSE]]
                            /\ Served(op, 0)
    /\ UNCHANGED <<cfgVars, callVars, wsVars>>

\* The rest of the route: db.update_item_status (533-552) with the derived
\* status, its result ignored, then the success answer
ProgressStatus(w) ==
    /\ pending[w].st = "status"
    /\ LET r == pending[w]
       IN  \E raised \in BOOLEAN :
              LET found == GetItemById(r.item_id, raised) # None /\ ~raised
              IN  /\ IF found
                     THEN /\ items' = [items EXCEPT
                                   ![First(Matching(items, r.item_id))].status =
                                       DerivedStatus(r.progress)[1]]
                          /\ UNCHANGED <<messages, subscriptions>>
                     ELSE UNCHANGED storeVars
                  /\ Returned(w, r.item_id, r.progress, 200, found)
                  /\ Served(r.op, 200)
    /\ UNCHANGED <<cfgVars, callVars, wsVars>>

\* The progress routes served by two threads, next to POST /items
NextProgress ==
    \/ \E c \in Credentials, d \in ProgressItemDocs : CreateItem(c, d)
    \/ \E w \in Workers, op \in ProgressRoutes, i \in ItemIds,
          p \in ProgressInputs : ProgressBegin(w, op, i, p)
    \/ \E w \in Workers : ProgressStatus(w)

-----------------------------------------------------------------------------
(* Specifications *)

\* The configuration and the store before a request; no call made yet
InitIdleCall ==
    /\ RESEND_API_KEY = TRUE
    /\ ADMIN_PASSWORD = "1234"
    /\ response = NoResponse
    /\ pending = [w \in Workers |-> IdleRequest]
    /\ ADMIN_EMAIL_STRING = <<"o">>
    /\ variant = "index"
    /\ items = << [item_id |-> "i1", name |-> <<"d">>, user_email |-> None,
                   status |-> "Working", progress |-> 0] >>
    /\ messages = <<>>
    /\ subscriptions = <<>>
    /\ req = [item_id |-> "i1", message |-> <<"h", "i">>, user_name |-> S_Yuki,
              msg_type |-> "general", send_notification |-> FALSE]
    /\ pc = "idle"
    /\ item = None
    /\ recipients = <<>>
    /\ idx = 0
    /\ success_count = 0
    /\ result = None
    /\ calls = <<>>
    /\ gateway = <<>>

\* One add_message call, for every configuration, store and request
Init == InitStore /\ InitCall /\ InitWS
Next == NextNotify
Spec == Init /\ [][Next]_vars

\* The ConnectionManager under connects, disconnects and broadcasts
InitManager == InitIdleCall /\ InitManagerWS
SpecWS == InitManager /\ [][NextWS]_vars

\* The registry of a ConnectionManager under connects and disconnects
InitRegistry ==
    /\ InitIdleCall
    /\ active_connections = [k \in {} |-> <<>>]
    /\ admin_connections = <<>>
    /\ accepted = {}
    /\ closed = {}
    /\ bc = [b \in {1} |-> IdleBroadcast]
    /\ received = [c \in Conns |-> <<>>]
    /\ broadcastCalls = <<>>
    /\ lastCall = NoCall
    /\ unregistered = {}
SpecRegistry == InitRegistry /\ [][NextRegistry]_vars

\* The routes over a store without items and with some posted messages, for
\* either deployment and any admin password
InitApi ==
    /\ RESEND_API_KEY = TRUE
    /\ ADMIN_EMAIL_STRING = <<"o">>
    /\ ADMIN_PASSWORD \in Passwords
    /\ variant \in {"index", "main"}
    /\ items = <<>>
    /\ messages \in SeqsUpTo(StoredMessages, MaxMessages)
    /\ subscriptions \in
          IF variant = "main"
          THEN SeqsUpTo([item_id : {"i1"}, email : {<<"a">>}], 1)
          ELSE {<<>>}
    /\ response = NoResponse
    /\ pending = [w \in Workers |-> IdleRequest]
    /\ pc = "idle"
    /\ req = [item_id |-> "i1", message |-> <<>>, user_name |-> S_Yuki,
              msg_type |-> "general", send_notification |-> FALSE]
    /\ item = None
    /\ recipients = <<>>
    /\ idx = 0
    /\ success_count = 0
    /\ result = None
    /\ calls = <<>>
    /\ gateway = <<>>
    /\ InitWS
SpecApi == InitApi /\ [][NextApi]_vars

\* index.py with item i1 stored (progress 0, "Working") and no progress
\* request served yet
InitProgress ==
    /\ InitIdleCall
    /\ variant = "index"
    /\ InitWS
SpecProgress == InitProgress /\ [][NextProgress]_vars

-----------------------------------------------------------------------------
(* Properties of the notification dispatch, checked under Spec *)

Done == pc = "done"

\* The call has stored its message
Stored == messages # <<>>

\* The author as stored with the message (the normalised author)
StoredAuthor == messages[1].user_name

\* The call stored its message with notification requested and has returned
Dispatched == Done /\ Stored /\ req.send_notification

\* Number of entries of a gateway log with the given outcome
RECURSIVE CountOutcome(_, _)
CountOutcome(log, outcome) ==
    IF log = <<>> THEN 0
    ELSE (IF Head(log)[2] = outcome THEN 1 ELSE 0) + CountOutcome(Tail(log), outcome)

\* K: the sends that failed, either because resend.Emails.send raised or because
\* send_email_notification returned False before calling it
FailedSends == CountOutcome(gateway, "error") + (Len(calls) - Len(gateway))

\* A contact string that holds no address: only commas and blanks
HasNoAddress(str) == \A i \in 1..Len(str) : str[i] \in {",", " "}

\* The contact field of the item the call read
ContactOf(it) == IF it.user_email = None THEN <<>> ELSE it.user_email[1]

\* The first occurrence of every entry, in order
RECURSIVE Dedup(_)
Dedup(q) ==
    IF q = <<>> THEN <<>>
    ELSE LET front == Dedup(SubSeq(q, 1, Len(q) - 1))
             last == q[Len(q)]
         IN  IF last \in {front[i] : i \in 1..Len(front)} THEN front
             ELSE Append(front, last)

IsPrefix(p, q) == Len(p) <= Len(q) /\ p = SubSeq(q, 1, Len(p))

\* C1: when a message was posted with notification requested and the dispatch
\* has returned, every one of the N resolved recipients was attempted, the
\* success count is N - K for the K sends that failed, whichever they are, and
\* the call returned success (no failure escaped the dispatch).
C1_PartialFailureAccounting ==
    Dispatched =>
        /\ Len(calls) = Len(recipients)
        /\ calls = recipients
        /\ success_count = Len(recipients) - FailedSends
        /\ success_count >= 0
        /\ result = Ok("Message posted successfully")

\* C1 witness: three recipients, the first send failed at the gateway, the last
\* succeeded, and the dispatch returned with two successes
C1_Witness ==
    /\ Dispatched
    /\ Len(recipients) = 3
    /\ Len(gateway) = 3
    /\ gateway[1][2] = "error"
    /\ gateway[3][2] = "ok"
    /\ success_count = 2

\* C5 (as claimed): for an author that is an admin alias the send attempts are
\* exactly the addresses parsed from the item's contact field, in source order,
\* each address once (exact duplicates dropped).
C5_AdminAuthorContactsDeduplicated ==
    (Dispatched /\ variant = "index" /\ StoredAuthor \in ADMIN_ALIASES) =>
        calls = Dedup(ParseEmails(ContactOf(item[1])))

\* C6: for an author that is not exactly an admin alias (compared case
\* sensitively, after the blank author was replaced by the anonymous sentinel)
\* the send attempts are exactly the configured admin addresses, whatever the
\* item's contact field; one configured address gives exactly one attempt.
C6_OtherAuthorsGetAdminAddresses ==
    (Dispatched /\ variant = "index" /\ StoredAuthor \notin ADMIN_ALIASES) =>
        /\ calls = ParseEmails(ADMIN_EMAIL_STRING)
        /\ (ADMIN_EMAIL_STRING = <<"o">> => calls = << <<"o">> >>)

\* C6 witness: 'administrator' posted on an item whose contact is "a", with one
\* configured admin address: the single attempt went to the admin address
C6_Witness ==
    /\ Dispatched
    /\ variant = "index"
    /\ StoredAuthor = S_administrator
    /\ item[1].user_email = Some(<<"a">>)
    /\ ADMIN_EMAIL_STRING = <<"o">>
    /\ calls = << <<"o">> >>

\* The posted message has nobody to notify: an admin author on an item whose
\* contact field is absent or holds no address, another author with no admin
\* address configured, or (main.py) an item without subscription
NobodyToNotify ==
    IF variant = "index"
    THEN IF StoredAuthor \in ADMIN_ALIASES
         THEN HasNoAddress(ContactOf(item[1]))
         ELSE HasNoAddress(ADMIN_EMAIL_STRING)
    ELSE \A i \in 1..Len(subscriptions) : subscriptions[i].item_id # req.item_id

\* C7: when the resolved recipient set is empty, no send is attempted, the
\* gateway is never called, zero sends succeed, and the post still succeeds.
C7_NobodyToNotifyNoSend ==
    (Dispatched /\ NobodyToNotify) =>
        /\ calls = <<>>
        /\ gateway = <<>>
        /\ success_count = 0
        /\ result = Ok("Message posted successfully")

\* C7 witness: 'Administrator' posted with notification on an item whose contact
\* field holds only a comma and a blank, with the gateway configured
C7_Witness ==
    /\ Dispatched
    /\ variant = "index"
    /\ StoredAuthor = S_Administrator
    /\ item[1].user_email = Some(<<",", " ">>)
    /\ RESEND_API_KEY
    /\ ADMIN_EMAIL_STRING = <<"o">>
    /\ result = Ok("Message posted successfully")

\* The order the resolver gives: the contact field's for an admin author, the
\* configured list's otherwise, the stored subscriptions' in main.py
ResolvedOrder ==
    IF variant = "index"
    THEN IF StoredAuthor \in ADMIN_ALIASES
         THEN ParseEmails(ContactOf(item[1]))
         ELSE ParseEmails(ADMIN_EMAIL_STRING)
    ELSE SubscriberEmails(subscriptions, req.item_id)

\* C8: at every moment of a dispatch the attempts made so far are the first
\* entries of the resolved recipient list, in its order; for contacts "a,b" and
\* author Administrator the attempt to a precedes the attempt to b.
C8_SendOrderFollowsResolver ==
    (Stored /\ req.send_notification /\ pc \in {"send", "done"}) =>
        /\ IsPrefix(calls, ResolvedOrder)
        /\ (Done /\ variant = "index" /\ StoredAuthor = S_Administrator
              /\ item[1].user_email = Some(<<"a", ",", "b">>))
           => calls = << <<"a">>, <<"b">> >>

\* C8 witness: the scenario of the claim, after both attempts
C8_Witness ==
    /\ Dispatched
    /\ variant = "index"
    /\ StoredAuthor = S_Administrator
    /\ item[1].user_email = Some(<<"a", ",", "b">>)
    /\ calls = << <<"a">>, <<"b">> >>

\* C9 (as claimed): once add_message has stored a message and returned success,
\* broadcast_new_message has been called for that message.
C9_StoredMessageIsBroadcast ==
    (Done /\ result = Ok("Message posted successfully")) =>
        \E i \in 1..Len(broadcastCalls) :
            broadcastCalls[i] = [kind |-> "new_message", item_id |-> req.item_id]

\* C10: a message posted without the notify flag causes no send attempt and no
\* gateway call, whatever the author, the contact field and the admin
\* addresses; one posted with the flag gets one attempt per resolved recipient.
C10_DispatchIffNotifyRequested ==
    /\ ~req.send_notification => (calls = <<>> /\ gateway = <<>>)
    /\ (Dispatched /\ variant = "index") => Len(calls) = Len(ResolvedOrder)
    /\ (Dispatched /\ variant = "main") => Len(calls) = Len(recipients)

\* C10 witness: a message stored without the flag, by a non-admin author, with
\* the gateway and an admin address configured: nothing was sent
C10_Witness ==
    /\ Done
    /\ Stored
    /\ ~req.send_notification
    /\ variant = "index"
    /\ StoredAuthor = S_Yuki
    /\ RESEND_API_KEY
    /\ ADMIN_EMAIL_STRING = <<"o">>
    /\ calls = <<>>

\* C11: whenever the call has stored its message it reports success, and POST
\* /messages answers 200, whether the sends failed, the gateway is not
\* configured or nobody is to be notified.
C11_StoredMessageReportsSuccess ==
    (Done /\ Stored) =>
        /\ result = Ok("Message posted successfully")
        /\ CreateMessageStatus(result[1]) = 200

\* C11 witness: a stored message whose two sends both failed at the configured
\* gateway, reported as posted
C11_Witness ==
    /\ Done
    /\ Stored
    /\ RESEND_API_KEY
    /\ Len(calls) = 2
    /\ Len(gateway) = 2
    /\ success_count = 0
    /\ result = Ok("Message posted successfully")

\* The call asked for a notification and could not get the message's item
ItemMissingForDispatch ==
    /\ Done
    /\ req.send_notification
    /\ item = None
    /\ result # Err("Message is empty")
    /\ result # Err("Failed to post message")

\* C12 (as claimed): when the item of the message cannot be supplied to the
\* dispatch, no send is attempted and the caller is told so: the call does not
\* return the result of a plain successful post.
C12_MissingItemSurfaced ==
    ItemMissingForDispatch =>
        /\ calls = <<>>
        /\ result # Ok("Message posted successfully")

\* C13 (as claimed): without an API key the dispatch attempts no send at all:
\* no send_email_notification call, no resend call, nothing succeeded.
C13_UnconfiguredGatewayShortCircuits ==
    ~RESEND_API_KEY =>
        /\ calls = <<>>
        /\ gateway = <<>>
        /\ success_count = 0

\* C21: the send loop and the gateway are reached only with the message of
\* the call stored; when create_document raises the call returns a failure
\* with nothing stored, no send_email_notification call and no gateway call.
C21_SendsOnlyAfterStore ==
    /\ (calls # <<>> \/ gateway # <<>> \/ pc \in {"send", "lookup"}) =>
           /\ Stored
           /\ messages[Len(messages)].message = req.message
    /\ (Done /\ result = Err("Failed to post message")) =>
           ~Stored /\ calls = <<>> /\ gateway = <<>>

\* C21 witness: a post by a visitor that asked for a notification, with an
\* admin address and an API key configured, failed at create_document
C21_Witness ==
    /\ Done
    /\ result = Err("Failed to post message")
    /\ req.send_notification
    /\ req.user_name = S_Yuki
    /\ RESEND_API_KEY
    /\ variant = "index" /\ ADMIN_EMAIL_STRING = <<"o">>
    /\ item # None
    /\ calls = <<>> /\ gateway = <<>> /\ messages = <<>>

\* C22: send_email_notification is called once for each recipient the loop has
\* taken (the entries of the resolved list in order; main.py passes over an
\* empty address), and the gateway at most once per such call: neither the
\* calls nor the gateway calls for one post exceed the resolved recipients,
\* and a failed send is not repeated.
C22_OneGatewayCallPerRecipient ==
    /\ idx <= Len(recipients)
    /\ calls = IF variant = "main"
               THEN SelectSeq(SubSeq(recipients, 1, idx), NonEmpty)
               ELSE SubSeq(recipients, 1, idx)
    /\ Len(gateway) <= Len(calls)
    /\ RESEND_API_KEY =>
           /\ Len(gateway) = Len(calls)
           /\ \A i \in 1..Len(gateway) : gateway[i][1] = calls[i]
    /\ (Done /\ HasRecipients(recipients)) => idx = Len(recipients)

\* C22 witness: three admin addresses, the first send failed at the gateway
\* and the other two went through: three gateway calls, one per address
C22_Witness ==
    /\ Done
    /\ Len(recipients) = 3
    /\ Len(gateway) = 3
    /\ gateway[1][2] = "error"
    /\ gateway[2][2] = "ok" /\ gateway[3][2] = "ok"
    /\ gateway[2][1] # gateway[1][1]

\* C23 (as claimed): every stored message references a stored item, and a
\* post for an item_id without a stored item ends with 'Item not found' and
\* nothing stored.
C23_StoredMessageReferencesItem ==
    /\ \A k \in 1..Len(messages) : Matching(items, messages[k].item_id) # {}
    /\ (Done /\ req.message # <<>> /\ Matching(items, req.item_id) = {}) =>
           result = Err("Item not found")

\* C18: a post whose body is empty after trimming ends at once with 'Message
\* is empty' (HTTP 400) and stores nothing, sends nothing and broadcasts
\* nothing, whatever the notify flag; a post with a body and a blank author
\* goes on with the anonymous sentinel as author, and the document that gets
\* stored carries the body and the author of the normalised request.
C18_EmptyBodyRejectedBlankAuthorAnonymous ==
    [][/\ (pc = "start" /\ Strip(req.message) = <<>>) =>
              /\ pc' = "done"
              /\ result' = Err("Message is empty")
              /\ CreateMessageStatus(result'[1]) = 400
              /\ messages' = messages
              /\ calls' = <<>> /\ gateway' = <<>>
              /\ UNCHANGED wsVars
       /\ (pc = "start" /\ Strip(req.message) # <<>> /\ Strip(req.user_name) = <<>>) =>
              /\ req'.user_name = ANONYMOUS
              /\ req'.message = Strip(req.message)
       /\ messages' # messages =>
              /\ pc = "create" /\ req' = req
              /\ req.message # <<>> /\ req.user_name # <<>>
              /\ messages' = Append(messages,
                     [item_id |-> req.item_id, message |-> req.message,
                      user_name |-> req.user_name, msg_type |-> req.msg_type])]_vars

\* C18 witness: a call that asked for a notification was rejected for its
\* empty body with nothing stored or sent
C18_Witness ==
    /\ Done
    /\ result = Err("Message is empty")
    /\ req.send_notification
    /\ messages = <<>> /\ calls = <<>> /\ gateway = <<>>

\* a message stored under the anonymous sentinel
C18_WitnessAnonymous ==
    /\ Done /\ Stored
    /\ messages[Len(messages)].user_name = ANONYMOUS
    /\ req.user_name = ANONYMOUS

-----------------------------------------------------------------------------
(* Properties of the registry, checked under SpecRegistry *)

\* C14: a disconnect_from_item / disconnect_admin call for a connection that is
\* not in the given scope's list (never registered there, already unregistered,
\* or no entry for the item) changes no list of the registry.
C14_UnregisterNonMemberIsNoOp ==
    [][/\ \A c \in Conns, i \in ItemIds :
              (UnregisterFromItem(c, i) /\ ~IsItemMember(c, i)) =>
                  UNCHANGED <<active_connections, admin_connections>>
       /\ \A c \in Conns :
              (UnregisterAdmin(c) /\ c \notin Range(admin_connections)) =>
                  UNCHANGED <<active_connections, admin_connections>>]_vars

\* C14 witness: c1 was registered and unregistered, then disconnect_from_item
\* (c1, i1) was called again, and c2 is still registered under i1
C14_Witness ==
    /\ lastCall = [op |-> "disconnect_from_item", websocket |-> "c1",
                   item_id |-> "i1", member |-> FALSE]
    /\ accepted = {"c1", "c2"}
    /\ DOMAIN active_connections = {"i1"}
    /\ active_connections["i1"] = <<"c2">>
    /\ admin_connections = <<>>

-----------------------------------------------------------------------------
(* Properties of login and the admin-only routes, checked under SpecApi *)

\* the request carries no bearer token, or one that is not the admin password
WrongToken(credentials) == credentials # Some(ADMIN_PASSWORD)

\* Every step of the routes serves one request and leaves it in response: the
\* route in op, the bearer token (or password) it carried in presented

\* C17: POST /items, PATCH /items/{id}/status, DELETE /items/{id} and
\* DELETE /messages/{id} called without a bearer token or with a wrong one are
\* answered with an authentication error (401, or 403 from HTTPBearer) and
\* leave the stored items and messages as they were.
C17_UnauthorizedAdminCallRejected ==
    [][(response'.op \in AdminOps /\ WrongToken(response'.presented)) =>
          /\ response'.status \in {401, 403}
          /\ UNCHANGED <<items, messages>>]_vars

\* C17 witness: a delete of a stored item with a wrong bearer token was
\* rejected, and the item and the messages are still stored
C17_Witness ==
    /\ response.op = "delete_item"
    /\ response.presented # None
    /\ WrongToken(response.presented)
    /\ response.status = 401
    /\ items # <<>>
    /\ messages # <<>>

\* C24 (as claimed): when DELETE /items/{item_id} answers success, no item,
\* message or subscription with that item_id is left in the store.
C24_DeleteItemCascades ==
    [][\A c \in Credentials, i \in ItemIds :
          (DeleteItem(c, i) /\ response'.status = 200) =>
              /\ Matching(items', i) = {}
              /\ Matching(messages', i) = {}
              /\ Matching(subscriptions', i) = {}]_vars

\* C25 (as claimed): no two stored item documents carry the same item_id.
C25_ItemIdsUnique ==
    \A k \in 1..Len(items), l \in 1..Len(items) :
        k # l => items[k].item_id # items[l].item_id

\* the answer of the last login is the one its password calls for
LoginAnswerRight ==
    response.op = "login" =>
        /\ response.status = 200 <=> response.presented = Some(ADMIN_PASSWORD)
        /\ response.status = 200 =>
               response.token # None /\ VerifyAdminToken(response.token)
        /\ response.status # 200 =>
               response.status = 401 /\ response.token = None

\* C19: login answers 200 with a token exactly when the submitted password is
\* the configured admin password and 401 without a token otherwise; the token
\* of a successful login passes verify_admin_token, so an admin-only call that
\* presents it is never answered with an authentication error.
C19_LoginIffPasswordAndTokenAccepted ==
    [][/\ LoginAnswerRight'
       /\ (/\ response'.op \in AdminOps
           /\ response.issued # None
           /\ response'.presented = response.issued)
          => response'.status \notin {401, 403}]_vars

\* C19 witness: with the admin password set to "abcd", a message was deleted
\* by a call that presented the token of the last successful login
C19_Witness ==
    /\ ADMIN_PASSWORD = "abcd"
    /\ response.op = "delete_message"
    /\ response.status = 200
    /\ response.issued # None
    /\ response.presented = response.issued

-----------------------------------------------------------------------------
(* Properties of the progress routes, checked under SpecProgress *)

\* C26 (as claimed): the progress of every stored item is within 0..100.
C26_ProgressWithinRange ==
    \A k \in 1..Len(items) : items[k].progress \in 0..100

\* the stored document get_item_by_id finds for item_id among docs
StoredItem(docs, item_id) == docs[First(Matching(docs, item_id))]

\* C27 (as claimed): when a progress route returns while no other progress
\* request has been started, then after a success the item's stored progress
\* is the requested one and its status is "Completed" for 100, "Working" for
\* 75..99, "Delayed" below 25 and what it was for 25..74; for an item that is
\* not stored the answer is 404 and no item changes.
C27_ProgressUpdateDerivesStatus ==
    [][\A w \in Workers :
          (/\ pending[w].st # "done" /\ pending'[w].st = "done"
           /\ \A v \in Workers \ {w} : pending[v].st = "idle") =>
              LET r == pending'[w]
              IN  /\ r.status = 200 =>
                         /\ Matching(items', r.item_id) # {}
                         /\ StoredItem(items', r.item_id).progress = r.progress
                         /\ StoredItem(items', r.item_id).status =
                                IF DerivedStatus(r.progress) # None
                                THEN DerivedStatus(r.progress)[1]
                                ELSE StoredItem(items, r.item_id).status
                  /\ (Matching(items, r.item_id) = {} /\ ProgressAccepted(r.progress)) =>
                         r.status = 404 /\ UNCHANGED items]_vars

\* some stored item has another status or progress after the step
StatusOrProgressChanged ==
    \E k \in 1..Len(items) :
        /\ k <= Len(items')
        /\ \/ items'[k].status # items[k].status
           \/ items'[k].progress # items[k].progress

\* C28 (as claimed): a step that changes the status or the progress of a
\* stored item serves a request that carries the admin token.
C28_OnlyAdminChangesStatusOrProgress ==
    [][StatusOrProgressChanged => response'.presented = Some(ADMIN_PASSWORD)]_vars

\* C30 (as claimed): once two progress updates of the same item have both
\* returned success, with every status write they made gone through, the
\* stored status is the one derived from the stored progress ("Completed" for
\* 100, "Working" for 75..99, "Delayed" below 25).
C30_StatusFollowsProgressUnderConcurrency ==
    (/\ \A w \in Workers :
            /\ pending[w].st = "done" /\ pending[w].status = 200
            /\ pending[w].wrote \/ DerivedStatus(pending[w].progress) = None
     /\ pending[1].item_id = pending[2].item_id) =>
        LET doc == StoredItem(items, pending[1].item_id)
        IN  DerivedStatus(doc.progress) # None =>
                doc.status = DerivedStatus(doc.progress)[1]

-----------------------------------------------------------------------------
(* Properties of the ConnectionManager, checked under SpecWS *)

\* Coroutine b leaves the loop it is suspended in during this step
LoopEnds(b) == bc[b].st \in {"item", "admin"} /\ bc'[b].st # bc[b].st

\* The list of the scope b's loop is about, as registered after the step
ScopeAfter(b) ==
    IF bc[b].st = "admin" THEN admin_connections'
    ELSE IF bc[b].item_id \in DOMAIN active_connections'
         THEN active_connections'[bc[b].item_id]
         ELSE <<>>

\* The list of the scope b's loop is about, as registered before the step
ScopeBefore(b) ==
    IF bc[b].st = "admin" THEN admin_connections
    ELSE IF bc[b].item_id \in DOMAIN active_connections
         THEN active_connections[bc[b].item_id]
         ELSE <<>>

\* Connection c has been pushed the event of call b, after the step
Pushed(c, b) == \E i \in 1..Len(received'[c]) : received'[c][i].id = b

\* C2 (as claimed): when a send_to_item / send_to_admins loop that met a dead
\* connection ends, every connection of the scope whose channel is open has
\* been pushed the event and every connection whose push failed is absent from
\* the scope; no broadcast is ever left by an exception.
C2_LiveConnectionsGetEvent ==
    [][\A b \in DOMAIN bc :
          /\ bc'[b].st # "raised"
          /\ (LoopEnds(b) /\ bc[b].disconnected # <<>>) =>
                /\ \A c \in Range(ScopeBefore(b)) \ closed : Pushed(c, b)
                /\ Range(bc[b].disconnected) \cap Range(ScopeAfter(b)) = {}]_vars

\* C3 (as claimed): when a loop ends during which another task unregistered a
\* connection of the same scope, every connection that has been in the scope's
\* list since the loop started, is still in it and has its channel open has
\* been pushed the event.
C3_BroadcastUsesSnapshot ==
    [][\A b \in DOMAIN bc :
          (LoopEnds(b) /\ bc[b].disturbed) =>
              \A c \in (Range(ScopeBefore(b)) \ bc[b].joined) \ closed :
                  Pushed(c, b)]_vars

\* C4 (as claimed): a connection receives the events of the broadcast calls
\* that reach it in the order the calls were made.
C4_EventOrderIsCallOrder ==
    \A c \in Conns :
        \A i, j \in 1..Len(received[c]) :
            i < j => received[c][i].id < received[c][j].id

\* How many envelopes of call b connection c has been pushed, after the step
RECURSIVE CountOf(_, _)
CountOf(q, b) ==
    IF q = <<>> THEN 0
    ELSE (IF Head(q).id = b THEN 1 ELSE 0) + CountOf(Tail(q), b)

\* C15 (as claimed): when a loop of a broadcast ends, every connection that has
\* been in the scope's list since the loop started and whose channel is open
\* has been pushed the broadcast's envelope exactly once, the same one for all;
\* and when every channel of the scope is open the loop removes nobody.
C15_EveryMemberGetsIdenticalEnvelopeOnce ==
    [][\A b \in DOMAIN bc :
          LoopEnds(b) =>
              /\ \A c \in (Range(ScopeBefore(b)) \ bc[b].joined) \ closed :
                    /\ CountOf(received'[c], b) = 1
                    /\ \A i \in 1..Len(received'[c]) :
                          received'[c][i].id = b =>
                              received'[c][i] = Envelope(Manager, b)
              /\ (Range(ScopeBefore(b)) \cap closed = {}) =>
                    ScopeAfter(b) = ScopeBefore(b)]_vars

\* C16: no item identifier of the registry maps to an empty list, whether a
\* connection was removed by a disconnect call or by the pruning of a
\* broadcast.
C16_NoEmptyScope ==
    \A k \in DOMAIN active_connections : active_connections[k] # <<>>

\* C16 witness: call 1 found c1, the only connection of item i1, dead; it
\* pruned c1, the entry of i1 is gone, and the call is now pushing to admin c2
C16_Witness ==
    /\ bc[1].st = "admin"
    /\ bc[1].item_id = "i1"
    /\ bc[1].failed = {"c1"}
    /\ bc[1].disconnected = <<>>
    /\ bc[1].idx = 1
    /\ admin_connections = <<"c2">>
    /\ "c2" \notin closed
    /\ "i1" \notin DOMAIN active_connections

\* websocket is in the admin list or in some item's list
Registered(websocket) ==
    \/ websocket \in Range(admin_connections)
    \/ \E i \in ItemIds : IsItemMember(websocket, i)

C29_BroadcastRemovesOnlyFailed ==
    [][unregistered' = unregistered =>
          \A c \in Conns :
             /\ \A i \in ItemIds :
                    (IsItemMember(c, i) /\ ~IsItemMember(c, i)') =>
                        \E b \in DOMAIN bc :
                           /\ bc[b].st = "item" /\ bc[b].item_id = i
                           /\ bc'[b].st # "item"
                           /\ c \in Range(bc[b].disconnected)
                           /\ c \in bc[b].failed /\ c \in closed
             /\ (c \in Range(admin_connections) /\ c \notin Range(admin_connections')) =>
                    \E b \in DOMAIN bc :
                       /\ bc[b].st = "admin" /\ bc'[b].st = "done"
                       /\ c \in Range(bc[b].disconnected)
                       /\ c \in bc[b].failed /\ c \in closed]_vars

\* C29 witness: a broadcast for item i1 has returned; c1, whose push failed,
\* is gone from the lists without any disconnect_* call, the admin c2 got the
\* event and is still registered, and so is c3 under item i2
C29_Witness ==
    /\ bc[1].st = "done" /\ bc[1].item_id = "i1"
    /\ bc[1].failed = {"c1"}
    /\ ~Registered("c1") /\ unregistered = {}
    /\ admin_connections = <<"c2">>
    /\ Len(received["c2"]) = 1
    /\ IsItemMember("c3", "i2")

=============================================================================
